---- MODULE Spec2Model ----
(***************************************************************************)
(* Model of the three force-field converters of ff-conversion-openmm:      *)
(*   main.frcmod.py + frcmod2omm.py   (AMBER FRCMOD  -> OpenMM records)    *)
(*   main.lammps.py + lammps2omm.py   (LAMMPS params -> OpenMM records)    *)
(*   main.tinker.py + tinker2omm.py   (Tinker .prm   -> OpenMM records)    *)
(*                                                                         *)
(* A Python str is a sequence of one-character strings, a list is a        *)
(* sequence; Python indices are 0-based, so At(l, i) is l[i].  A float is  *)
(* an exact decimal [m, e] standing for m / 10^e: products by the decimal  *)
(* constants of the source are exact, the rounding error of binary         *)
(* floating point is not modelled.  Products by irrational constants       *)
(* (pi, bohr powers) are kept symbolic.                                    *)
(***************************************************************************)
EXTENDS Integers, Sequences, FiniteSets, TLC

VARIABLES
    prog,            \* the entry point that runs: "frcmod", "lammps" or "tinker"
    argc,            \* len(sys.argv) - 1, the number of positional arguments
    file,            \* main.frcmod: the lines of the file named by sys.argv[1]
    lines,           \* main.lammps, main.tinker: the lines read so far
    eof,             \* main.lammps, main.tinker: the file has no further line
    out,             \* what was printed, in order
    pc,              \* "args", "extract", "print", "run", "exit", "done", "crashed"
    exitStatus,      \* the exit status: -1 while it runs, 1 after a traceback
    opened,          \* whether open() was called
    err,             \* the uncaught exception, if any
    sect,            \* main.frcmod: BOND, ANGLE, DIHE, IMPROPER, NONBON lists
    kidx,            \* main.frcmod: the list being printed
    multipoles_list, \* main.tinker: the last list handed to _multipole
    ffrcmod,         \* extract: the number of lines read from the open file
    x_llist,         \* extract: llist, the lines collected so far
    x_empty_lines    \* extract: empty_lines, set by the blank line

vars == <<prog, argc, file, lines, eof, out, pc, exitStatus, opened, err,
          sect, kidx, multipoles_list, ffrcmod, x_llist, x_empty_lines>>

(***************************************************************************)
(* Python str and list primitives                                          *)
(***************************************************************************)
At(l, i) == l[i + 1]

HasIdx(l, i) == i >= 0 /\ i < Len(l)

Slice(s, a, b) == SubSeq(s, a + 1, IF b < Len(s) THEN b ELSE Len(s))

SliceFrom(s, a) == SubSeq(s, a + 1, Len(s))

IsSpace(c) == c = " "

startswith(s, p) == Len(s) >= Len(p) /\ SubSeq(s, 1, Len(p)) = p

RECURSIVE lstrip(_)
lstrip(s) == IF s # <<>> /\ IsSpace(Head(s)) THEN lstrip(Tail(s)) ELSE s

RECURSIVE rstrip(_)
rstrip(s) ==
    IF s # <<>> /\ IsSpace(s[Len(s)]) THEN rstrip(SubSeq(s, 1, Len(s) - 1)) ELSE s

strip(s) == rstrip(lstrip(s))

replace(s, a, b) == [i \in 1..Len(s) |-> IF s[i] = a THEN b ELSE s[i]]

\* str.split(sep) for a one-character separator: empty fields are kept
RECURSIVE SplitAcc(_, _, _, _)
SplitAcc(s, sep, cur, acc) ==
    IF s = <<>> THEN Append(acc, cur)
    ELSE IF Head(s) = sep THEN SplitAcc(Tail(s), sep, <<>>, Append(acc, cur))
    ELSE SplitAcc(Tail(s), sep, Append(cur, Head(s)), acc)

splitOn(s, sep) == SplitAcc(s, sep, <<>>, <<>>)

\* str.split() with no argument: runs of whitespace separate, no empty field
split(s) == SelectSeq(splitOn(s, " "), LAMBDA t : t # <<>>)

RECURSIVE Concat(_)
Concat(ls) == IF ls = <<>> THEN <<>> ELSE Head(ls) \o Concat(Tail(ls))

(***************************************************************************)
(* float() and int() of a token, exact decimals                            *)
(***************************************************************************)
Digits == {"0", "1", "2", "3", "4", "5", "6", "7", "8", "9"}

DigitVal(c) ==
    CASE c = "0" -> 0 [] c = "1" -> 1 [] c = "2" -> 2 [] c = "3" -> 3
      [] c = "4" -> 4 [] c = "5" -> 5 [] c = "6" -> 6 [] c = "7" -> 7
      [] c = "8" -> 8 [] c = "9" -> 9

Unsigned(t) == IF t # <<>> /\ Head(t) \in {"-", "+"} THEN Tail(t) ELSE t

IsNeg(t) == t # <<>> /\ Head(t) = "-"

AllDigits(t) == \A i \in 1..Len(t) : t[i] \in Digits

\* int(str): an optionally signed run of digits
IsInt(t) == Unsigned(t) # <<>> /\ AllDigits(Unsigned(t))

\* float(str): optionally signed digits with at most one point (the decimal
\* grammar without exponent; every token of the input sets is either inside
\* this grammar or is rejected by Python's float() as well)
IsFloat(t) ==
    LET u == Unsigned(t)
        parts == splitOn(u, ".")
    IN  /\ Len(parts) \in {1, 2}
        /\ \A i \in 1..Len(parts) : AllDigits(parts[i])
        /\ \E i \in 1..Len(parts) : parts[i] # <<>>

RECURSIVE DigitsVal(_, _)
DigitsVal(t, acc) ==
    IF t = <<>> THEN acc ELSE DigitsVal(Tail(t), 10 * acc + DigitVal(Head(t)))

RECURSIVE Pow10(_)
Pow10(n) == IF n <= 0 THEN 1 ELSE 10 * Pow10(n - 1)

Dec(m, e) == [m |-> m, e |-> e]

RECURSIVE Norm(_)
Norm(d) ==
    IF d.e > 0 /\ d.m % 10 = 0 THEN Norm(Dec(d.m \div 10, d.e - 1)) ELSE d

float(t) ==
    LET u == Unsigned(t)
        parts == splitOn(u, ".")
        frac == IF Len(parts) = 2 THEN parts[2] ELSE <<>>
        mag == DigitsVal(parts[1] \o frac, 0)
    IN  Norm(Dec(IF IsNeg(t) THEN 0 - mag ELSE mag, Len(frac)))

int(t) == IF IsNeg(t) THEN 0 - DigitsVal(Unsigned(t), 0) ELSE DigitsVal(Unsigned(t), 0)

Abs(n) == IF n < 0 THEN 0 - n ELSE n

Sgn(n) == IF n < 0 THEN 0 - 1 ELSE 1

\* int(float): truncation toward zero
intOfFloat(d) == Sgn(d.m) * (Abs(d.m) \div Pow10(d.e))

DecMul(a, b) == Norm(Dec(a.m * b.m, a.e + b.e))

\* a / b for a divisor b that is a power of ten (0.1, 0.01)
DecDivPow10(a, b) ==
    IF a.e >= b.e THEN Norm(Dec(a.m, a.e - b.e))
    ELSE Dec(a.m * Pow10(b.e - a.e), 0)

\* '{:.pf}'.format(x): x rounded to p decimals (half to even on the exact
\* decimal), kept with exactly p decimals
FormatFixed(d, p) ==
    IF d.e <= p THEN Dec(d.m * Pow10(p - d.e), p)
    ELSE LET q == Pow10(d.e - p)
             a == Abs(d.m)
             lo == a \div q
             r == a % q
             up == 2 * r > q \/ (2 * r = q /\ lo % 2 = 1)
         IN  Dec(Sgn(d.m) * (IF up THEN lo + 1 ELSE lo), p)

(***************************************************************************)
(* Printed items and emitted records                                       *)
(*   a value is the text of one attribute: a token copied from the input   *)
(*   ("str"), the '{}' text of a number ("num"), a number formatted to p   *)
(*   decimals ("fix"), or a number times the irrational factor f ("sym")   *)
(***************************************************************************)
VStr(s) == [t |-> "str", s |-> s, d |-> Dec(0, 0), f |-> ""]

VNum(d) == [t |-> "num", s |-> <<>>, d |-> d, f |-> ""]

VFix(d, p) == [t |-> "fix", s |-> <<>>, d |-> FormatFixed(d, p), f |-> ""]

VSym(d, f) == [t |-> "sym", s |-> <<>>, d |-> d, f |-> f]

A(n, v) == [n |-> n, v |-> v]

Rec(tag, attrs) == [tag |-> tag, attrs |-> attrs]

NoRec == Rec("", <<>>)

HasAttr(rec, n) == \E i \in 1..Len(rec.attrs) : rec.attrs[i].n = n

Attr(rec, n) == rec.attrs[CHOOSE i \in 1..Len(rec.attrs) : rec.attrs[i].n = n].v

\* print(record text)
PRec(rec) == [kind |-> "record", text |-> <<>>, rec |-> rec, msg |-> ""]

\* print(CGREY + text + CEND), msg being the literal put before the text
PGrey(msg, text) == [kind |-> "grey", text |-> text, rec |-> NoRec, msg |-> msg]

\* print(CYLW + annotation + CEND)
PDiag(rec) == [kind |-> "diag", text |-> <<>>, rec |-> rec, msg |-> ""]

\* print of a literal message, or of a list (its tokens joined)
PMsg(msg, text) == [kind |-> "msg", text |-> text, rec |-> NoRec, msg |-> msg]

\* the printed items of one call, each tagged with the source line it came from
WithSrc(items, i) ==
    [j \in 1..Len(items) |->
        [kind |-> items[j].kind, text |-> items[j].text, rec |-> items[j].rec,
         msg |-> items[j].msg, src |-> i]]

\* the outcome of one converter call: what it printed, the exception it
\* raised ("" when it returned), and the value it returned
Ok(prints, ret) == [prints |-> prints, raised |-> "", ret |-> ret]

Raise(prints, exc) == [prints |-> prints, raised |-> exc, ret |-> NoRec]

\* The first exception of a run of accesses, in statement order.  An access
\* is <<list, kind, i>>: "idx" reads list[i], "float"/"int" also convert it.
Access(l, kind, i) == [l |-> l, kind |-> kind, i |-> i]

AccessErr(a) ==
    IF ~HasIdx(a.l, a.i) THEN "IndexError"
    ELSE IF a.kind = "float" /\ ~IsFloat(At(a.l, a.i)) THEN "ValueError"
    ELSE IF a.kind = "int" /\ ~IsInt(At(a.l, a.i)) THEN "ValueError"
    ELSE ""

RECURSIVE FirstErr(_)
FirstErr(as) ==
    IF as = <<>> THEN ""
    ELSE IF AccessErr(Head(as)) # "" THEN AccessErr(Head(as))
    ELSE FirstErr(Tail(as))

Join(l) == Concat([i \in 1..Len(l) |-> IF i = 1 THEN l[i] ELSE <<" ">> \o l[i]])

(***************************************************************************)
(* frcmod2omm.py                                                           *)
(***************************************************************************)
kcal2kj == Dec(4184, 3)

ang2nm == Dec(1, 1)

radians(d) == VSym(d, "pi/180")

fmm_bond_k_noscale(k) == DecDivPow10(DecMul(k, kcal2kj), DecMul(ang2nm, ang2nm))

fmm_bond_k(k) ==
    DecDivPow10(DecMul(DecMul(Dec(2, 0), k), kcal2kj), DecMul(ang2nm, ang2nm))

fmm_bond(line) ==
    LET atoms == split(replace(Slice(line, 0, 5), "-", " "))
        params == split(SliceFrom(line, 5))
        e == FirstErr(<<Access(params, "float", 0), Access(params, "float", 1),
                        Access(atoms, "idx", 0), Access(atoms, "idx", 1)>>)
    IN  IF e # "" THEN Raise(<<>>, e)
        ELSE LET k == float(At(params, 0))
                 r == float(At(params, 1))
                 omm_out == Rec("Bond", <<A("type1", VStr(At(atoms, 0))),
                                          A("type2", VStr(At(atoms, 1))),
                                          A("length", VNum(DecMul(r, ang2nm))),
                                          A("k", VNum(fmm_bond_k(k)))>>)
             IN  Ok(<<PRec(omm_out)>>, omm_out)

fmm_angle(line) ==
    LET atoms == split(replace(Slice(line, 0, 8), "-", " "))
        params == split(SliceFrom(line, 8))
        e == FirstErr(<<Access(params, "float", 0), Access(params, "float", 1),
                        Access(atoms, "idx", 0), Access(atoms, "idx", 1),
                        Access(atoms, "idx", 2)>>)
    IN  IF e # "" THEN Raise(<<>>, e)
        ELSE LET k == float(At(params, 0))
                 a == float(At(params, 1))
                 omm_out == Rec("Angle", <<A("type1", VStr(At(atoms, 0))),
                                           A("type2", VStr(At(atoms, 1))),
                                           A("type3", VStr(At(atoms, 2))),
                                           A("angle", radians(a)),
                                           A("k", VNum(DecMul(DecMul(Dec(2, 0), k), kcal2kj)))>>)
             IN  Ok(<<PRec(omm_out)>>, omm_out)

\* pk/idivf is a quotient of two inputs: kept symbolic, as is a division by 0
fmm_dihedral(line) ==
    LET atoms == split(replace(Slice(line, 0, 11), "-", " "))
        params == split(SliceFrom(line, 11))
        e == FirstErr(<<Access(params, "float", 0), Access(params, "float", 1),
                        Access(params, "float", 2), Access(params, "float", 3),
                        Access(atoms, "idx", 0), Access(atoms, "idx", 1),
                        Access(atoms, "idx", 2), Access(atoms, "idx", 3)>>)
    IN  IF e # "" THEN Raise(<<>>, e)
        ELSE LET idivf == float(At(params, 0))
                 pk == float(At(params, 1))
                 phase == float(At(params, 2))
                 pn == float(At(params, 3))
                 omm_out == Rec("Proper", <<A("type1", VStr(At(atoms, 0))),
                                            A("type2", VStr(At(atoms, 1))),
                                            A("type3", VStr(At(atoms, 2))),
                                            A("type4", VStr(At(atoms, 3))),
                                            A("periodicity1", VNum(Dec(intOfFloat(pn), 0))),
                                            A("phase1", radians(phase)),
                                            A("k1", [t |-> "sym", s |-> <<>>,
                                                     d |-> DecMul(pk, kcal2kj),
                                                     f |-> "1/idivf"])>>)
             IN  IF idivf.m = 0 THEN Raise(<<>>, "ZeroDivisionError")
                 ELSE Ok(<<PRec(omm_out)>>, omm_out)

\* the four identifiers in the order the record gives them
fmm_improper_order_asis(atoms) == <<At(atoms, 0), At(atoms, 1), At(atoms, 2), At(atoms, 3)>>

fmm_improper_order(atoms) == <<At(atoms, 2), At(atoms, 0), At(atoms, 1), At(atoms, 3)>>

fmm_improper(line) ==
    LET atoms == split(replace(Slice(line, 0, 11), "-", " "))
        params == split(SliceFrom(line, 11))
        e == FirstErr(<<Access(params, "float", 0), Access(params, "float", 1),
                        Access(params, "float", 2),
                        Access(atoms, "idx", 2), Access(atoms, "idx", 0),
                        Access(atoms, "idx", 1), Access(atoms, "idx", 3)>>)
    IN  IF e # "" THEN Raise(<<>>, e)
        ELSE LET k == float(At(params, 0))
                 phase == float(At(params, 1))
                 pn == float(At(params, 2))
                 t == fmm_improper_order(atoms)
                 omm_out == Rec("Improper", <<A("type1", VStr(t[1])),
                                              A("type2", VStr(t[2])),
                                              A("type3", VStr(t[3])),
                                              A("type4", VStr(t[4])),
                                              A("periodicity1", VNum(Dec(intOfFloat(pn), 0))),
                                              A("phase1", radians(phase)),
                                              A("k1", VNum(DecMul(k, kcal2kj)))>>)
             IN  Ok(<<PRec(omm_out)>>, omm_out)

\* sigma = ang2nm * 2 * rmin2 / 2**(1/6): the sixth root of two is symbolic
fmm_nonbonding(line) ==
    LET llist == split(line)
        e == FirstErr(<<Access(llist, "idx", 0), Access(llist, "float", 1),
                        Access(llist, "float", 2)>>)
    IN  IF e # "" THEN Raise(<<>>, e)
        ELSE LET rmin2 == float(At(llist, 1))
                 epsilon == float(At(llist, 2))
                 omm_out == Rec("Atom", <<A("type", VStr(At(llist, 0))),
                                          A("charge", VStr(<<"X", "X", "X", "X">>)),
                                          A("sigma", VSym(DecMul(DecMul(ang2nm, Dec(2, 0)), rmin2),
                                                          "1/2**(1/6)")),
                                          A("epsilon", VNum(DecMul(kcal2kj, epsilon)))>>)
             IN  Ok(<<PRec(omm_out)>>, omm_out)

(***************************************************************************)
(* lammps2omm.py                                                           *)
(***************************************************************************)
lmm_bond_k(k) ==
    DecDivPow10(DecMul(k, DecMul(Dec(2, 0), kcal2kj)), DecMul(ang2nm, ang2nm))

lmm_bond(line) ==
    LET llist == split(line)
        atoms == IF HasIdx(llist, 5) THEN splitOn(At(llist, 5), "-") ELSE <<>>
        e == FirstErr(<<Access(llist, "idx", 5), Access(llist, "float", 2),
                        Access(llist, "float", 3), Access(atoms, "idx", 0),
                        Access(atoms, "idx", 1)>>)
    IN  IF e # "" THEN Raise(<<>>, e)
        ELSE LET k == float(At(llist, 2))
                 r == float(At(llist, 3))
                 omm_out == Rec("Bond", <<A("type1", VStr(At(atoms, 0))),
                                          A("type2", VStr(At(atoms, 1))),
                                          A("length", VNum(DecMul(r, ang2nm))),
                                          A("k", VNum(lmm_bond_k(k)))>>)
             IN  Ok(<<PRec(omm_out)>>, omm_out)

lmm_angle(line) ==
    LET llist == split(line)
        atoms == IF HasIdx(llist, 5) THEN splitOn(At(llist, 5), "-") ELSE <<>>
        e == FirstErr(<<Access(llist, "idx", 5), Access(llist, "float", 2),
                        Access(llist, "float", 3), Access(atoms, "idx", 0),
                        Access(atoms, "idx", 1), Access(atoms, "idx", 2)>>)
    IN  IF e # "" THEN Raise(<<>>, e)
        ELSE LET k == float(At(llist, 2))
                 a == float(At(llist, 3))
                 omm_out == Rec("Angle", <<A("type1", VStr(At(atoms, 0))),
                                           A("type2", VStr(At(atoms, 1))),
                                           A("type3", VStr(At(atoms, 2))),
                                           A("angle", radians(a)),
                                           A("k", VNum(DecMul(DecMul(Dec(2, 0), k), kcal2kj)))>>)
             IN  Ok(<<PRec(omm_out)>>, omm_out)

lmm_dihedral(line) ==
    LET llist == split(line)
        atoms == IF HasIdx(llist, 7) THEN splitOn(At(llist, 7), "-") ELSE <<>>
        e == FirstErr(<<Access(llist, "idx", 7), Access(llist, "float", 2),
                        Access(llist, "int", 3), Access(llist, "int", 4),
                        Access(atoms, "idx", 0), Access(atoms, "idx", 1),
                        Access(atoms, "idx", 2), Access(atoms, "idx", 3)>>)
    IN  IF e # "" THEN Raise(<<>>, e)
        ELSE LET k == float(At(llist, 2))
                 periodicity == int(At(llist, 3))
                 phaseoffset == int(At(llist, 4))
                 omm_out == Rec("Proper", <<A("type1", VStr(At(atoms, 0))),
                                            A("type2", VStr(At(atoms, 1))),
                                            A("type3", VStr(At(atoms, 2))),
                                            A("type4", VStr(At(atoms, 3))),
                                            A("periodicity1", VNum(Dec(periodicity, 0))),
                                            A("phase1", radians(Dec(phaseoffset, 0))),
                                            A("k1", VNum(DecMul(k, kcal2kj)))>>)
             IN  Ok(<<PRec(omm_out)>>, omm_out)

\* llist[i].split('-')[1]
SecondName(llist, i) == At(splitOn(At(llist, i), "-"), 1)

SecondNameErr(llist, i) ==
    IF ~HasIdx(llist, i) THEN "IndexError"
    ELSE IF ~HasIdx(splitOn(At(llist, i), "-"), 1) THEN "IndexError"
    ELSE ""

lj == <<"l", "j">>

buck == <<"b", "u", "c", "k">>

zero_text == <<"0", ".", "0">>

\* the first if/elif/else of _nonbonding
lmm_nonbonding_lj(line, llist, omm_sigma, omm_epsilon) ==
    LET atom_type1 == At(llist, 1)
        atom_type2 == At(llist, 2)
    IN  IF atom_type1 = atom_type2 /\ startswith(At(llist, 3), lj)
        THEN IF SecondNameErr(llist, 7) # "" THEN Raise(<<>>, SecondNameErr(llist, 7))
             ELSE LET omm_out == Rec("Atom", <<A("type", VStr(SecondName(llist, 7))),
                                               A("charge", VStr(<<"X", "X", "X", "X">>)),
                                               A("sigma", VNum(omm_sigma)),
                                               A("epsilon", VNum(omm_epsilon))>>)
                  IN  Ok(<<PRec(omm_out)>>, omm_out)
        ELSE IF atom_type1 # atom_type2 /\ startswith(At(llist, 3), lj)
        THEN IF ~HasIdx(llist, 7) THEN Raise(<<PGrey("", strip(line))>>, "IndexError")
             ELSE Ok(<<PGrey("", strip(line)),
                       PDiag(Rec("annotation", <<A("name", VStr(At(llist, 7))),
                                                 A("omm_sigma", VNum(omm_sigma)),
                                                 A("omm_epsilon", VNum(omm_epsilon))>>))>>,
                     NoRec)
        ELSE Ok(<<PGrey("", strip(line))>>, NoRec)

\* the closing if of _nonbonding: the record it prints, if any
lmm_nonbonding_buck_computed(llist, omm_sigma, omm_epsilon) ==
    IF At(llist, 1) = At(llist, 2) /\ startswith(At(llist, 3), buck)
    THEN IF SecondNameErr(llist, 8) # "" THEN Raise(<<>>, SecondNameErr(llist, 8))
         ELSE Ok(<<PRec(Rec("Atom", <<A("type", VStr(SecondName(llist, 8))),
                                      A("charge", VStr(<<"X", "X", "X", "X">>)),
                                      A("sigma", VNum(omm_sigma)),
                                      A("epsilon", VNum(omm_epsilon))>>))>>, NoRec)
    ELSE Ok(<<>>, NoRec)

lmm_nonbonding_buck(llist, omm_sigma, omm_epsilon) ==
    IF At(llist, 1) = At(llist, 2) /\ startswith(At(llist, 3), buck)
    THEN IF SecondNameErr(llist, 8) # "" THEN Raise(<<>>, SecondNameErr(llist, 8))
         ELSE Ok(<<PRec(Rec("Atom", <<A("type", VStr(SecondName(llist, 8))),
                                      A("charge", VStr(<<"X", "X", "X", "X">>)),
                                      A("sigma", VStr(zero_text)),
                                      A("epsilon", VStr(zero_text))>>))>>, NoRec)
    ELSE Ok(<<>>, NoRec)

lmm_nonbonding(line) ==
    LET llist == split(line)
        e == FirstErr(<<Access(llist, "idx", 1), Access(llist, "idx", 2),
                        Access(llist, "float", 4), Access(llist, "float", 5)>>)
    IN  IF e # "" THEN Raise(<<>>, e)
        ELSE LET omm_sigma == DecMul(ang2nm, float(At(llist, 5)))
                 omm_epsilon == DecMul(kcal2kj, float(At(llist, 4)))
                 first == lmm_nonbonding_lj(line, llist, omm_sigma, omm_epsilon)
                 last == lmm_nonbonding_buck(llist, omm_sigma, omm_epsilon)
             IN  IF first.raised # "" THEN first
                 ELSE IF last.raised # "" THEN Raise(first.prints \o last.prints, last.raised)
                 ELSE Ok(first.prints \o last.prints, first.ret)

(***************************************************************************)
(* tinker2omm.py: every converter takes the token list of a line           *)
(***************************************************************************)
t2omm_vdw(llist) ==
    LET e == FirstErr(<<Access(llist, "idx", 1), Access(llist, "float", 2),
                        Access(llist, "float", 3)>>)
    IN  IF e # "" THEN Raise(<<>>, e)
        ELSE LET sigma == DecMul(float(At(llist, 2)), Dec(1, 1))
                 epsilon == DecMul(float(At(llist, 3)), Dec(4184, 3))
                 reduction == IF Len(llist) = 5 THEN VStr(At(llist, 4)) ELSE VNum(Dec(1, 0))
             IN  Ok(<<>>, Rec("Vdw", <<A("class", VStr(At(llist, 1))),
                                       A("sigma", VFix(sigma, 4)),
                                       A("epsilon", VFix(epsilon, 6)),
                                       A("reduction", reduction)>>))

t2omm_bond_k_doubled(k) ==
    DecDivPow10(DecMul(DecMul(Dec(2, 0), k), Dec(4184, 3)), Dec(1, 2))

t2omm_bond_k(k) == DecDivPow10(DecMul(k, Dec(4184, 3)), Dec(1, 2))

t2omm_bond(llist) ==
    LET e == FirstErr(<<Access(llist, "idx", 1), Access(llist, "idx", 2),
                        Access(llist, "float", 3), Access(llist, "float", 4)>>)
    IN  IF e # "" THEN Raise(<<>>, e)
        ELSE LET k == t2omm_bond_k(float(At(llist, 3)))
                 bond_length == DecMul(float(At(llist, 4)), Dec(1, 1))
             IN  Ok(<<>>, Rec("Bond", <<A("class1", VStr(At(llist, 1))),
                                        A("class2", VStr(At(llist, 2))),
                                        A("length", VFix(bond_length, 6)),
                                        A("k", VFix(k, 2))>>))

\* _angle with one branch per number of angle values: 7 tokens give two
t2omm_angle_by_count(llist) ==
    LET n == Len(llist)
        e == FirstErr(<<Access(llist, "float", 4)>>)
        head == <<A("class1", VStr(At(llist, 1))), A("class2", VStr(At(llist, 2))),
                  A("class3", VStr(At(llist, 3))),
                  A("k", VSym(float(At(llist, 4)), "4.184/(180/pi)**2"))>>
        angles == [i \in 1..(n - 5) |->
                      A(<<"angle1", "angle2", "angle3">>[i], VStr(At(llist, 4 + i)))]
    IN  IF n \notin {6, 7, 8}
        THEN Raise(<<PMsg("something wrong with AMOEBA angles!", <<>>),
                     PMsg("", Join(llist))>>, "UnboundLocalError")
        ELSE IF e # "" THEN Raise(<<>>, e)
        ELSE Ok(<<>>, Rec("Angle", head \o angles))

t2omm_angle(llist) ==
    LET n == Len(llist)
        e == FirstErr(<<Access(llist, "idx", 1), Access(llist, "idx", 2),
                        Access(llist, "idx", 3), Access(llist, "float", 4)>>)
        head == <<A("class1", VStr(At(llist, 1))), A("class2", VStr(At(llist, 2))),
                  A("class3", VStr(At(llist, 3))),
                  A("k", VSym(float(At(llist, 4)), "4.184/(180/pi)**2"))>>
    IN  IF n \notin {6, 8, 9}
        THEN Raise(<<PMsg("something wrong with AMOEBA angles!", <<>>),
                     PMsg("", Join(llist))>>, "UnboundLocalError")
        ELSE IF e # "" THEN Raise(<<>>, e)
        ELSE IF n = 6
        THEN Ok(<<>>, Rec("Angle", head \o <<A("angle1", VStr(At(llist, 5)))>>))
        ELSE IF n = 8
        THEN Ok(<<>>, Rec("Angle", head \o <<A("angle1", VStr(At(llist, 5))),
                                             A("angle2", VStr(At(llist, 6)))>>))
        ELSE Ok(<<>>, Rec("Angle", head \o <<A("angle1", VStr(At(llist, 5))),
                                             A("angle2", VStr(At(llist, 6))),
                                             A("angle3", VStr(At(llist, 7)))>>))

t2omm_strbend(llist) ==
    LET e == FirstErr(<<Access(llist, "idx", 1), Access(llist, "idx", 2),
                        Access(llist, "idx", 3), Access(llist, "float", 4),
                        Access(llist, "float", 5)>>)
    IN  IF e # "" THEN Raise(<<>>, e)
        ELSE Ok(<<>>, Rec("StretchBend",
                          <<A("class1", VStr(At(llist, 1))), A("class2", VStr(At(llist, 2))),
                            A("class3", VStr(At(llist, 3))),
                            A("k1", VSym(float(At(llist, 4)), "4.184*10/(180/pi)")),
                            A("k2", VSym(float(At(llist, 5)), "4.184*10/(180/pi)"))>>))

t2omm_torsion(llist) ==
    LET e == FirstErr(<<Access(llist, "idx", 1), Access(llist, "idx", 2),
                        Access(llist, "idx", 3), Access(llist, "idx", 4),
                        Access(llist, "float", 5), Access(llist, "float", 6),
                        Access(llist, "idx", 7),
                        Access(llist, "float", 8), Access(llist, "float", 9),
                        Access(llist, "idx", 10),
                        Access(llist, "float", 11), Access(llist, "float", 12),
                        Access(llist, "idx", 13)>>)
        k(i) == VFix(DecMul(float(At(llist, i)), Dec(2092, 3)), 6)
        phase(i) == VSym(float(At(llist, i)), "pi/180")
    IN  IF e # "" THEN Raise(<<>>, e)
        ELSE Ok(<<>>, Rec("Proper",
                          <<A("class1", VStr(At(llist, 1))), A("class2", VStr(At(llist, 2))),
                            A("class3", VStr(At(llist, 3))), A("class4", VStr(At(llist, 4))),
                            A("k1", k(5)), A("phase1", phase(6)),
                            A("periodicity1", VStr(At(llist, 7))),
                            A("k2", k(8)), A("phase2", phase(9)),
                            A("periodicity2", VStr(At(llist, 10))),
                            A("k3", k(11)), A("phase3", phase(12)),
                            A("periodicity3", VStr(At(llist, 13)))>>))

t2omm_polarize(llist) ==
    LET e == FirstErr(<<Access(llist, "idx", 1), Access(llist, "float", 2),
                        Access(llist, "idx", 3)>>)
        polarizable_groups == SliceFrom(llist, 4)
        head == <<A("type", VStr(At(llist, 1))),
                  A("polarizability", VFix(DecMul(float(At(llist, 2)), Dec(1, 3)), 6)),
                  A("thole", VStr(At(llist, 3)))>>
        pgrp(i) == A(CASE i = 1 -> "pgrp1" [] i = 2 -> "pgrp2" [] OTHER -> "pgrp3",
                     VStr(polarizable_groups[i]))
    IN  IF e # "" THEN Raise(<<>>, e)
        ELSE IF polarizable_groups = <<>> THEN Ok(<<>>, Rec("Polarize", head))
        ELSE IF Len(polarizable_groups) = 1
        THEN Ok(<<>>, Rec("Polarize", head \o <<pgrp(1)>>))
        ELSE IF Len(llist) = 6
        THEN Ok(<<>>, Rec("Polarize", head \o <<pgrp(1), pgrp(2)>>))
        ELSE IF Len(llist) = 7
        THEN Ok(<<>>, Rec("Polarize", head \o <<pgrp(1), pgrp(2), pgrp(3)>>))
        ELSE Raise(<<PMsg("error in polarize parameters", <<>>), PMsg("", Join(llist))>>,
                   "UnboundLocalError")

\* the moments of a multipole record: the monopole at index c, then three
\* dipole components, then six quadrupole components
MultipoleMoments(llist, c) ==
    <<A("c0", VFix(float(At(llist, c)), 6)),
      A("d1", VSym(float(At(llist, c + 1)), "bohr*0.1")),
      A("d2", VSym(float(At(llist, c + 2)), "bohr*0.1")),
      A("d3", VSym(float(At(llist, c + 3)), "bohr*0.1")),
      A("q11", VSym(float(At(llist, c + 4)), "0.01*bohr*bohr/3.0")),
      A("q21", VSym(float(At(llist, c + 5)), "0.01*bohr*bohr/3.0")),
      A("q22", VSym(float(At(llist, c + 6)), "0.01*bohr*bohr/3.0")),
      A("q31", VSym(float(At(llist, c + 7)), "0.01*bohr*bohr/3.0")),
      A("q32", VSym(float(At(llist, c + 8)), "0.01*bohr*bohr/3.0")),
      A("q33", VSym(float(At(llist, c + 9)), "0.01*bohr*bohr/3.0"))>>

MomentsErr(llist, c) == FirstErr([i \in 1..10 |-> Access(llist, "float", c + i - 1)])

\* a converter that takes every list of 14 or more tokens for the z-then-x frame
t2omm_multipole_guess(llist) ==
    IF Len(llist) >= 14 /\ Len(llist) # 15
    THEN IF MomentsErr(llist, 4) # "" THEN Raise(<<>>, MomentsErr(llist, 4))
         ELSE Ok(<<>>, Rec("Multipole",
                           <<A("type", VStr(At(llist, 1))), A("kz", VStr(At(llist, 2))),
                             A("kx", VStr(At(llist, 3)))>> \o MultipoleMoments(llist, 4)))
    ELSE IF Len(llist) = 15
    THEN IF MomentsErr(llist, 5) # "" THEN Raise(<<>>, MomentsErr(llist, 5))
         ELSE Ok(<<>>, Rec("Multipole",
                           <<A("type", VStr(At(llist, 1))), A("kz", VStr(At(llist, 2))),
                             A("kx", VStr(At(llist, 3))), A("ky", VStr(At(llist, 4)))>>
                           \o MultipoleMoments(llist, 5)))
    ELSE Raise(<<>>, "UnboundLocalError")

t2omm_multipole(llist) ==
    IF Len(llist) = 14
    THEN IF MomentsErr(llist, 4) # "" THEN Raise(<<>>, MomentsErr(llist, 4))
         ELSE Ok(<<>>, Rec("Multipole",
                           <<A("type", VStr(At(llist, 1))), A("kz", VStr(At(llist, 2))),
                             A("kx", VStr(At(llist, 3)))>> \o MultipoleMoments(llist, 4)))
    ELSE IF Len(llist) = 15
    THEN IF MomentsErr(llist, 5) # "" THEN Raise(<<>>, MomentsErr(llist, 5))
         ELSE Ok(<<>>, Rec("Multipole",
                           <<A("type", VStr(At(llist, 1))), A("kz", VStr(At(llist, 2))),
                             A("kx", VStr(At(llist, 3))), A("ky", VStr(At(llist, 4)))>>
                           \o MultipoleMoments(llist, 5)))
    ELSE Raise(<<>>, "UnboundLocalError")

t2omm_opbend(llist) ==
    LET e == FirstErr(<<Access(llist, "idx", 1), Access(llist, "idx", 2),
                        Access(llist, "idx", 3), Access(llist, "idx", 4),
                        Access(llist, "float", 5)>>)
    IN  IF e # "" THEN Raise(<<>>, e)
        ELSE Ok(<<>>, Rec("Angle",
                          <<A("class1", VStr(At(llist, 1))), A("class2", VStr(At(llist, 2))),
                            A("class3", VStr(At(llist, 3))), A("class4", VStr(At(llist, 4))),
                            A("k", VSym(float(At(llist, 5)), "4.184/(radian*radian)"))>>))

t2omm_pitors(llist) ==
    LET e == FirstErr(<<Access(llist, "idx", 1), Access(llist, "idx", 2),
                        Access(llist, "float", 3)>>)
    IN  IF e # "" THEN Raise(<<>>, e)
        ELSE Ok(<<>>, Rec("PiTorsion",
                          <<A("class1", VStr(At(llist, 1))), A("class2", VStr(At(llist, 2))),
                            A("k", VFix(DecMul(float(At(llist, 3)), Dec(4184, 3)), 4))>>))

(***************************************************************************)
(* Inputs                                                                  *)
(***************************************************************************)
MaxArgs == 2

MaxFrcmodLines == 5

MaxLammpsLines == 2

MaxTinkerLines == 6

Min(a, b) == IF a < b THEN a ELSE b

SeqsUpTo(S, n) == UNION {[1..k -> S] : k \in 0..n}

\* "BOND"
kw_BOND == <<"B", "O", "N", "D">>

\* "ANGLE"
kw_ANGLE == <<"A", "N", "G", "L", "E">>

\* "DIHE"
kw_DIHE == <<"D", "I", "H", "E">>

\* "IMPROPER"
kw_IMPROPER == <<"I", "M", "P", "R", "O", "P", "E", "R">>

\* "NONBON"
kw_NONBON == <<"N", "O", "N", "B", "O", "N">>

\* "c3-h1 330.60 1.097"
F_bond ==
    <<"c", "3", "-", "h", "1", " ", "3", "3", "0", ".", "6", "0", " ", "1", ".", "0",
      "9", "7">>

\* "c -c3-n -c3 1.1 180.0 2.0 "
F_improper ==
    <<"c", " ", "-", "c", "3", "-", "n", " ", "-", "c", "3", " ", "1", ".", "1", " ",
      "1", "8", "0", ".", "0", " ", "2", ".", "0", " ">>

FrcmodLines == {kw_BOND, kw_IMPROPER, F_bond, F_improper, <<>>}

\* the lines of the files extract is followed through step by step: two
\* headers, a parameter line and a whitespace-only line
MaxExtractLines == 5

F_blank == <<" ">>

ExtractLines == {kw_BOND, kw_IMPROPER, F_bond, F_blank}

\* "bond_coeff"
kw_bond_coeff == <<"b", "o", "n", "d", "_", "c", "o", "e", "f", "f">>

\* "angle_coeff"
kw_angle_coeff == <<"a", "n", "g", "l", "e", "_", "c", "o", "e", "f", "f">>

\* "dihedral_coeff"
kw_dihedral_coeff ==
    <<"d", "i", "h", "e", "d", "r", "a", "l", "_", "c", "o", "e", "f", "f">>

\* "pair_coeff"
kw_pair_coeff == <<"p", "a", "i", "r", "_", "c", "o", "e", "f", "f">>

\* "bond_coeff 1 338.7 1.091 # c3-hx"
L_bond ==
    <<"b", "o", "n", "d", "_", "c", "o", "e", "f", "f", " ", "1", " ", "3", "3", "8",
      ".", "7", " ", "1", ".", "0", "9", "1", " ", "#", " ", "c", "3", "-", "h", "x">>

\* "bond_coeff 1 338.7 1.091"
L_bond_nocomment ==
    <<"b", "o", "n", "d", "_", "c", "o", "e", "f", "f", " ", "1", " ", "3", "3", "8",
      ".", "7", " ", "1", ".", "0", "9", "1">>

\* "angle_coeff 1 46.2 110.1 # c3-n4-hn"
L_angle ==
    <<"a", "n", "g", "l", "e", "_", "c", "o", "e", "f", "f", " ", "1", " ", "4", "6",
      ".", "2", " ", "1", "1", "0", ".", "1", " ", "#", " ", "c", "3", "-", "n", "4",
      "-", "h", "n">>

\* "dihedral_coeff 1 0.15 3 0 0.0 # hx-c3-n4-hn"
L_dihedral ==
    <<"d", "i", "h", "e", "d", "r", "a", "l", "_", "c", "o", "e", "f", "f", " ", "1",
      " ", "0", ".", "1", "5", " ", "3", " ", "0", " ", "0", ".", "0", " ", "#", " ",
      "h", "x", "-", "c", "3", "-", "n", "4", "-", "h", "n">>

\* "pair_coeff 1 1 lj/cut 0.1 2.5 # c3-c3"
L_lj_same ==
    <<"p", "a", "i", "r", "_", "c", "o", "e", "f", "f", " ", "1", " ", "1", " ", "l",
      "j", "/", "c", "u", "t", " ", "0", ".", "1", " ", "2", ".", "5", " ", "#", " ",
      "c", "3", "-", "c", "3">>

\* "pair_coeff 1 2 lj/cut 0.1 2.5 # c3-hx"
L_lj_mixed ==
    <<"p", "a", "i", "r", "_", "c", "o", "e", "f", "f", " ", "1", " ", "2", " ", "l",
      "j", "/", "c", "u", "t", " ", "0", ".", "1", " ", "2", ".", "5", " ", "#", " ",
      "c", "3", "-", "h", "x">>

\* "pair_coeff 2 2 buck 9.5 0.3 7.0 # o-o"
L_buck_same ==
    <<"p", "a", "i", "r", "_", "c", "o", "e", "f", "f", " ", "2", " ", "2", " ", "b",
      "u", "c", "k", " ", "9", ".", "5", " ", "0", ".", "3", " ", "7", ".", "0", " ",
      "#", " ", "o", "-", "o">>

\* "pair_coeff 2 2 buck 9.5 0.3 # o-o"
L_buck_short ==
    <<"p", "a", "i", "r", "_", "c", "o", "e", "f", "f", " ", "2", " ", "2", " ", "b",
      "u", "c", "k", " ", "9", ".", "5", " ", "0", ".", "3", " ", "#", " ", "o", "-",
      "o">>

\* "pair_coeff 1 2 buck 9.5 0.3 7.0 # c3-o"
L_buck_mixed ==
    <<"p", "a", "i", "r", "_", "c", "o", "e", "f", "f", " ", "1", " ", "2", " ", "b",
      "u", "c", "k", " ", "9", ".", "5", " ", "0", ".", "3", " ", "7", ".", "0", " ",
      "#", " ", "c", "3", "-", "o">>

\* " units real "
L_other == <<" ", "u", "n", "i", "t", "s", " ", "r", "e", "a", "l", " ">>

LammpsLines == {L_bond, L_bond_nocomment, L_angle, L_dihedral, L_lj_same, L_lj_mixed,
                L_buck_same, L_buck_short, L_buck_mixed, L_other, <<>>}

\* "bond"
kw_bond == <<"b", "o", "n", "d">>

\* "angle"
kw_angle == <<"a", "n", "g", "l", "e">>

\* "strbnd"
kw_strbnd == <<"s", "t", "r", "b", "n", "d">>

\* "torsion"
kw_torsion == <<"t", "o", "r", "s", "i", "o", "n">>

\* "vdw"
kw_vdw == <<"v", "d", "w">>

\* "opbend"
kw_opbend == <<"o", "p", "b", "e", "n", "d">>

\* "pitors"
kw_pitors == <<"p", "i", "t", "o", "r", "s">>

\* "multipole"
kw_multipole == <<"m", "u", "l", "t", "i", "p", "o", "l", "e">>

\* "polarize"
kw_polarize == <<"p", "o", "l", "a", "r", "i", "z", "e">>

\* "# x y"
T_comment == <<"#", " ", "x", " ", "y">>

\* "0.5"
T_short == <<"0", ".", "5">>

\* " 0.1 0.0 0.4"
T_three == <<" ", "0", ".", "1", " ", "0", ".", "0", " ", "0", ".", "4">>

\* "bond 6 16 341.01 1.1120"
T_bond ==
    <<"b", "o", "n", "d", " ", "6", " ", "1", "6", " ", "3", "4", "1", ".", "0", "1",
      " ", "1", ".", "1", "1", "2", "0">>

\* "bond 6 16"
T_bond_short == <<"b", "o", "n", "d", " ", "6", " ", "1", "6">>

\* "multipole 7 44 10 -0.14"
T_multipole ==
    <<"m", "u", "l", "t", "i", "p", "o", "l", "e", " ", "7", " ", "4", "4", " ", "1",
      "0", " ", "-", "0", ".", "1", "4">>

TinkerLines == {T_comment, T_short, T_three, T_bond, T_bond_short, T_multipole}

\* Tinker lines of the arities the angle, torsion and multipole converters
\* tell apart, and a line whose keyword is the prefix of its first token
MaxWideLines == 3

\* "vdwpr 6 16 3.5 0.1"
W_vdwpr ==
    <<"v", "d", "w", "p", "r", " ", "6", " ", "1", "6", " ", "3", ".", "5", " ", "0",
      ".", "1">>

\* " 0.1 0.0 0.4 0.2 0.3"
W_five ==
    <<" ", "0", ".", "1", " ", "0", ".", "0", " ", "0", ".", "4", " ", "0", ".", "2",
      " ", "0", ".", "3">>

\* "angle 1 2 3 69.2 114.0"
W_angle6 ==
    <<"a", "n", "g", "l", "e", " ", "1", " ", "2", " ", "3", " ", "6", "9", ".", "2",
      " ", "1", "1", "4", ".", "0">>

\* "angle 1 2 3 69.2 114.0 110.0"
W_angle7 ==
    <<"a", "n", "g", "l", "e", " ", "1", " ", "2", " ", "3", " ", "6", "9", ".", "2",
      " ", "1", "1", "4", ".", "0", " ", "1", "1", "0", ".", "0">>

\* "angle 1 2 3 69.2 114.0 110.0 105.0"
W_angle8 ==
    <<"a", "n", "g", "l", "e", " ", "1", " ", "2", " ", "3", " ", "6", "9", ".", "2",
      " ", "1", "1", "4", ".", "0", " ", "1", "1", "0", ".", "0", " ", "1", "0", "5",
      ".", "0">>

\* "angle 1 2 3 69.2 114.0 110.0 105.0 0"
W_angle9 ==
    <<"a", "n", "g", "l", "e", " ", "1", " ", "2", " ", "3", " ", "6", "9", ".", "2",
      " ", "1", "1", "4", ".", "0", " ", "1", "1", "0", ".", "0", " ", "1", "0", "5",
      ".", "0", " ", "0">>

\* "angle 1 2 3 k 114.0"
W_angle_k ==
    <<"a", "n", "g", "l", "e", " ", "1", " ", "2", " ", "3", " ", "k", " ", "1", "1",
      "4", ".", "0">>

\* "torsion 1 2 3 4 0.5 0.0 1"
W_torsion8 ==
    <<"t", "o", "r", "s", "i", "o", "n", " ", "1", " ", "2", " ", "3", " ", "4", " ",
      "0", ".", "5", " ", "0", ".", "0", " ", "1">>

\* "torsion 1 2 3 4 0.5 0.0 1 0.9 180.0 2"
W_torsion11 ==
    <<"t", "o", "r", "s", "i", "o", "n", " ", "1", " ", "2", " ", "3", " ", "4", " ",
      "0", ".", "5", " ", "0", ".", "0", " ", "1", " ", "0", ".", "9", " ", "1", "8",
      "0", ".", "0", " ", "2">>

\* "torsion 1 2 3 4 0.5 0.0 1 0.9 180.0 2 0.1 0.0 3"
W_torsion14 ==
    <<"t", "o", "r", "s", "i", "o", "n", " ", "1", " ", "2", " ", "3", " ", "4", " ",
      "0", ".", "5", " ", "0", ".", "0", " ", "1", " ", "0", ".", "9", " ", "1", "8",
      "0", ".", "0", " ", "2", " ", "0", ".", "1", " ", "0", ".", "0", " ", "3">>

TinkerWideLines ==
    {T_three, T_multipole, W_vdwpr, W_five, W_angle6, W_angle7, W_angle8, W_angle9,
     W_angle_k, W_torsion8, W_torsion11, W_torsion14}

(***************************************************************************)
(* The three entry points                                                  *)
(***************************************************************************)
NoErr == [exc |-> "", exhausted |-> FALSE]

Usage(m1, m2) == WithSrc(<<PMsg(m1, <<>>), PMsg(m2, <<>>)>>, 0)

\* the exit status after sys.exit() with no argument (SystemExit(None))
sys_exit == 0

Init ==
    /\ prog \in {"frcmod", "lammps", "tinker"}
    /\ argc \in 0..MaxArgs
    /\ IF prog = "frcmod" /\ argc = 1
       THEN file \in SeqsUpTo(FrcmodLines, MaxFrcmodLines)
       ELSE file = <<>>
    /\ lines = <<>>
    /\ eof = FALSE
    /\ out = <<>>
    /\ pc = "args"
    /\ exitStatus = -1
    /\ opened = FALSE
    /\ err = NoErr
    /\ sect = <<>>
    /\ kidx = 0
    /\ multipoles_list = <<>>
    /\ ffrcmod = 0
    /\ x_llist = <<>>
    /\ x_empty_lines = 0

\* the argument check all three scripts open with
ArgCheck(p, m1, m2, next) ==
    /\ pc = "args"
    /\ prog = p
    /\ IF argc + 1 = 2
       THEN /\ pc' = next
            /\ UNCHANGED <<out, exitStatus>>
       ELSE /\ out' = out \o Usage(m1, m2)
            /\ exitStatus' = sys_exit
            /\ pc' = "exit"
    /\ UNCHANGED <<prog, argc, file, lines, eof, opened, err, sect, kidx, multipoles_list,
                 ffrcmod, x_llist, x_empty_lines>>

(***************************************************************************)
(* main.frcmod.py                                                          *)
(***************************************************************************)
\* the inner while loop of extract: readline() until a blank line or the end
RECURSIVE ReadSection(_, _, _)
ReadSection(f, j, llist) ==
    IF j > Len(f) THEN [next |-> j, llist |-> llist]
    ELSE LET temp_line == strip(f[j])
         IN  IF Len(temp_line) > 0
             THEN ReadSection(f, j + 1, Append(llist, [src |-> j, text |-> temp_line]))
             ELSE [next |-> j + 1, llist |-> llist]

\* the for loop of extract, from line i on
RECURSIVE ExtractFrom(_, _, _, _, _)
ExtractFrom(f, component, i, llist, empty_lines) ==
    IF i > Len(f) THEN llist
    ELSE IF startswith(f[i], component)
    THEN IF empty_lines = 0
         THEN LET r == ReadSection(f, i + 1, llist)
              IN  ExtractFrom(f, component, r.next, r.llist, empty_lines + 1)
         ELSE ExtractFrom(f, component, i + 1, llist, empty_lines)
    ELSE IF empty_lines > 0 THEN llist
    ELSE ExtractFrom(f, component, i + 1, llist, empty_lines)

\* each element is the stripped line, with the number of the line it came from
extract(f, component) == ExtractFrom(f, component, 1, <<>>, 0)

Components == <<kw_BOND, kw_ANGLE, kw_DIHE, kw_IMPROPER, kw_NONBON>>

FrcmodArgs == ArgCheck("frcmod", "No FRCMOD file specified!", "USAGE: script.py lig.frcmod", "extract")

FrcmodExtract ==
    /\ pc = "extract"
    /\ prog = "frcmod"
    /\ opened' = TRUE
    /\ sect' = [k \in 1..5 |-> extract(file, Components[k])]
    /\ kidx' = 1
    /\ pc' = "print"
    /\ UNCHANGED <<prog, argc, file, lines, eof, out, exitStatus, err, multipoles_list,
                 ffrcmod, x_llist, x_empty_lines>>

(* extract, one loop iteration per step *)
\* the kind keyword of the call in progress: the calls of lines 57-61 in order
component == Components[Len(sect) + 1]

\* ffrcmod.readline(): the next line, '' once the file is exhausted
readline == IF ffrcmod < Len(file) THEN file[ffrcmod + 1] ELSE <<>>

\* the test of "while not empty_lines"
WhileTrue == TRUE

WhileNotEmptyLines == x_empty_lines = 0

\* lines 34-37: llist = [], empty_lines = 0, open(fname)
ExtractCall ==
    /\ pc = "extract"
    /\ prog = "frcmod"
    /\ opened' = TRUE
    /\ ffrcmod' = 0
    /\ x_llist' = <<>>
    /\ x_empty_lines' = 0
    /\ pc' = "for"
    /\ UNCHANGED <<prog, argc, file, lines, eof, out, exitStatus, err, sect, kidx,
                   multipoles_list>>

\* lines 39-40, 48-49: "for line in ffrcmod" takes the next line, or ends
ExtractFor ==
    /\ pc = "for"
    /\ prog = "frcmod"
    /\ IF ffrcmod = Len(file)
       THEN /\ pc' = "return"
            /\ UNCHANGED ffrcmod
       ELSE /\ ffrcmod' = ffrcmod + 1
            /\ pc' = IF startswith(readline, component)
                      THEN IF WhileNotEmptyLines THEN "while" ELSE "for"
                      ELSE IF x_empty_lines > 0 THEN "return" ELSE "for"
    /\ UNCHANGED <<prog, argc, file, lines, eof, out, exitStatus, opened, err, sect,
                   kidx, multipoles_list, x_llist, x_empty_lines>>

\* the loop of lines 41-47 with a readline() that is never '' at the end of
\* the file: the loop finds no blank line there and goes on
ExtractWhile_noeof ==
    /\ pc = "while"
    /\ prog = "frcmod"
    /\ IF ffrcmod = Len(file)
       THEN UNCHANGED <<ffrcmod, x_llist, x_empty_lines, pc>>
       ELSE LET temp_line == strip(readline)
            IN  /\ ffrcmod' = ffrcmod + 1
                /\ IF Len(temp_line) > 0
                   THEN /\ x_llist' = Append(x_llist, [src |-> ffrcmod + 1, text |-> temp_line])
                        /\ UNCHANGED <<x_empty_lines, pc>>
                   ELSE /\ x_empty_lines' = x_empty_lines + 1
                        /\ pc' = "for"
                        /\ UNCHANGED x_llist
    /\ UNCHANGED <<prog, argc, file, lines, eof, out, exitStatus, opened, err, sect,
                   kidx, multipoles_list>>

\* lines 41-47: one iteration of the while loop
ExtractWhile ==
    /\ pc = "while"
    /\ prog = "frcmod"
    /\ LET temp_line == strip(readline)
       IN  /\ ffrcmod' = Min(ffrcmod + 1, Len(file))
           /\ IF Len(temp_line) > 0
              THEN /\ x_llist' = Append(x_llist, [src |-> ffrcmod + 1, text |-> temp_line])
                   /\ pc' = IF WhileNotEmptyLines THEN "while" ELSE "for"
                   /\ UNCHANGED x_empty_lines
              ELSE /\ x_empty_lines' = x_empty_lines + 1
                   /\ pc' = "for"
                   /\ UNCHANGED x_llist
    /\ UNCHANGED <<prog, argc, file, lines, eof, out, exitStatus, opened, err, sect,
                   kidx, multipoles_list>>

\* lines 51-53: close and return(llist); after the fifth call the print loops
ExtractReturn ==
    /\ pc = "return"
    /\ prog = "frcmod"
    /\ sect' = Append(sect, x_llist)
    /\ pc' = IF Len(sect) = 4 THEN "print" ELSE "extract"
    /\ kidx' = IF Len(sect) = 4 THEN 1 ELSE kidx
    /\ UNCHANGED <<prog, argc, file, lines, eof, out, exitStatus, opened, err,
                   multipoles_list, ffrcmod, x_llist, x_empty_lines>>

fmm_convert(k, item) ==
    CASE k = 1 -> fmm_bond(item)
      [] k = 2 -> fmm_angle(item)
      [] k = 3 -> fmm_dihedral(item)
      [] k = 4 -> fmm_improper(item)
      [] k = 5 -> fmm_nonbonding(item)

\* for item in LIST: fmm._kind(item)
RECURSIVE PrintItems(_, _, _)
PrintItems(k, items, printed) ==
    IF items = <<>> THEN [prints |-> printed, raised |-> ""]
    ELSE LET r == fmm_convert(k, Head(items).text)
             now == printed \o WithSrc(r.prints, Head(items).src)
         IN  IF r.raised # "" THEN [prints |-> now, raised |-> r.raised]
             ELSE PrintItems(k, Tail(items), now)

\* the list printed by the k-th of the five loops
PrintOrderReversed(k) == 6 - k

PrintOrder(k) == k

\* one of the five loops of lines 64-82, with the print("") that follows it
FrcmodPrint ==
    /\ pc = "print"
    /\ prog = "frcmod"
    /\ LET k == PrintOrder(kidx)
           r == PrintItems(k, sect[k], <<>>)
       IN  IF r.raised # ""
           THEN /\ out' = out \o r.prints
                /\ err' = [exc |-> r.raised, exhausted |-> FALSE]
                /\ exitStatus' = 1
                /\ pc' = "crashed"
                /\ kidx' = kidx
           ELSE /\ out' = out \o r.prints \o WithSrc(<<PMsg("", <<>>)>>, 0)
                /\ err' = err
                /\ kidx' = kidx + 1
                /\ pc' = IF kidx = 5 THEN "done" ELSE "print"
                /\ exitStatus' = IF kidx = 5 THEN 0 ELSE exitStatus
    /\ UNCHANGED <<prog, argc, file, lines, eof, opened, sect, multipoles_list,
                 ffrcmod, x_llist, x_empty_lines>>

(***************************************************************************)
(* main.lammps.py                                                          *)
(***************************************************************************)
LammpsArgs ==
    ArgCheck("lammps", "No LAMMPS param file specified!", "USAGE: script.py lig.param", "run")

\* the body of the for loop, lines 36-47: what one line prints and raises
lmm_dispatch(line) ==
    LET cleaned_line == strip(line)
        first == IF Len(cleaned_line) >= 1 THEN At(split(cleaned_line), 0) ELSE <<>>
    IN  IF Len(cleaned_line) >= 1 /\ first = kw_bond_coeff THEN lmm_bond(cleaned_line)
        ELSE IF Len(cleaned_line) >= 1 /\ first = kw_angle_coeff THEN lmm_angle(cleaned_line)
        ELSE IF Len(cleaned_line) >= 1 /\ first = kw_dihedral_coeff
        THEN lmm_dihedral(cleaned_line)
        ELSE IF Len(cleaned_line) >= 1 /\ first = kw_pair_coeff
        THEN lmm_nonbonding(cleaned_line)
        ELSE Ok(<<PGrey("", cleaned_line)>>, NoRec)

\* one iteration of "for line in params"
LammpsLine ==
    /\ pc = "run"
    /\ prog = "lammps"
    /\ ~eof
    /\ Len(lines) < MaxLammpsLines
    /\ \E line \in LammpsLines :
          LET r == lmm_dispatch(line)
          IN  /\ lines' = Append(lines, line)
              /\ out' = out \o WithSrc(r.prints, Len(lines) + 1)
              /\ IF r.raised # ""
                 THEN /\ err' = [exc |-> r.raised, exhausted |-> FALSE]
                      /\ exitStatus' = 1
                      /\ pc' = "crashed"
                 ELSE UNCHANGED <<err, exitStatus, pc>>
    /\ opened' = TRUE
    /\ UNCHANGED <<prog, argc, file, eof, sect, kidx, multipoles_list,
                 ffrcmod, x_llist, x_empty_lines>>

\* the iterator is exhausted: the with block closes the file and the script ends
LammpsEof ==
    /\ pc = "run"
    /\ prog = "lammps"
    /\ eof' = TRUE
    /\ opened' = TRUE
    /\ pc' = "done"
    /\ exitStatus' = 0
    /\ UNCHANGED <<prog, argc, file, lines, out, err, sect, kidx, multipoles_list,
                 ffrcmod, x_llist, x_empty_lines>>

(***************************************************************************)
(* main.tinker.py                                                          *)
(***************************************************************************)
TinkerArgs ==
    ArgCheck("tinker", "No AMOEBA Force Field file specified!",
             "USAGE: script.py tinker-parameter-file.prm", "run")

hash == <<"#">>

\* the number of readline() calls of the multipole branch, lines 86-89
Readlines3 == 4 - 1

Readlines == 4

\* the branch of the if/elif chain of lines 46-108 that a token list takes
t2omm_branch(line_in_list) ==
    LET first == At(line_in_list, 0)
    IN  IF Len(line_in_list) < 3 \/ startswith(first, hash) THEN "pass"
        ELSE IF startswith(first, kw_bond) THEN "bond"
        ELSE IF startswith(first, kw_angle) THEN "angle"
        ELSE IF startswith(first, kw_strbnd) THEN "strbnd"
        ELSE IF startswith(first, kw_torsion) THEN "torsion"
        ELSE IF startswith(first, kw_vdw) THEN "vdw"
        ELSE IF startswith(first, kw_opbend) THEN "opbend"
        ELSE IF startswith(first, kw_pitors) THEN "pitors"
        ELSE IF startswith(first, kw_multipole) THEN "multipole"
        ELSE IF startswith(first, kw_polarize) THEN "polarize"
        ELSE "skip"

\* the converter call of a branch other than "pass", "multipole" and "skip"
t2omm_convert(branch, line_in_list) ==
    CASE branch = "bond" -> t2omm_bond(line_in_list)
      [] branch = "angle" -> t2omm_angle(line_in_list)
      [] branch = "strbnd" -> t2omm_strbend(line_in_list)
      [] branch = "torsion" -> t2omm_torsion(line_in_list)
      [] branch = "vdw" -> t2omm_vdw(line_in_list)
      [] branch = "opbend" -> t2omm_opbend(line_in_list)
      [] branch = "pitors" -> t2omm_pitors(line_in_list)
      [] branch = "polarize" -> t2omm_polarize(line_in_list)

\* print(converter(list)): the converter's own prints, then its result
PrintResult(r) == IF r.raised # "" THEN r ELSE Ok(r.prints \o <<PRec(r.ret)>>, r.ret)

\* one iteration of "for line in file".  In the multipole branch more holds
\* the lines the readline() calls return; fewer than Readlines of them means
\* that the file ended there and the remaining calls returned ''.
TinkerLineOf(Lines, MaxLines) ==
    /\ pc = "run"
    /\ prog = "tinker"
    /\ ~eof
    /\ Len(lines) < MaxLines
    /\ \E line \in Lines :
       \E more \in SeqsUpTo(Lines, Min(Readlines, MaxLines - Len(lines) - 1)) :
          LET line_in_list == split(strip(line))
              branch == t2omm_branch(line_in_list)
              i == Len(lines) + 1
              list == line_in_list
                      \o Concat([j \in 1..Len(more) |-> split(strip(more[j]))])
              r == IF branch = "pass" THEN Ok(<<>>, NoRec)
                   ELSE IF branch = "skip"
                   THEN Ok(<<PGrey("skipping line:  ", strip(line))>>, NoRec)
                   ELSE IF branch = "multipole" THEN PrintResult(t2omm_multipole(list))
                   ELSE PrintResult(t2omm_convert(branch, line_in_list))
          IN  /\ branch # "multipole" => more = <<>>
              /\ lines' = Append(lines, line) \o more
              /\ eof' = (branch = "multipole" /\ Len(more) < Readlines)
              /\ multipoles_list' = IF branch = "multipole" THEN list ELSE multipoles_list
              /\ out' = out \o WithSrc(r.prints, i)
              /\ IF r.raised # ""
                 THEN /\ err' = [exc |-> r.raised, exhausted |-> eof']
                      /\ exitStatus' = 1
                      /\ pc' = "crashed"
                 ELSE UNCHANGED <<err, exitStatus, pc>>
    /\ opened' = TRUE
    /\ UNCHANGED <<prog, argc, file, sect, kidx,
                 ffrcmod, x_llist, x_empty_lines>>

TinkerLine == TinkerLineOf(TinkerLines, MaxTinkerLines)

TinkerLineWide == TinkerLineOf(TinkerWideLines, MaxWideLines)

\* the iterator is exhausted: file.close() and the script ends
TinkerEof ==
    /\ pc = "run"
    /\ prog = "tinker"
    /\ eof' = TRUE
    /\ opened' = TRUE
    /\ pc' = "done"
    /\ exitStatus' = 0
    /\ UNCHANGED <<prog, argc, file, lines, out, err, sect, kidx, multipoles_list,
                 ffrcmod, x_llist, x_empty_lines>>

Next ==
    \/ FrcmodArgs
    \/ FrcmodExtract
    \/ FrcmodPrint
    \/ LammpsArgs
    \/ LammpsLine
    \/ LammpsEof
    \/ TinkerArgs
    \/ TinkerLine
    \/ TinkerEof

Spec == Init /\ [][Next]_vars

\* main.tinker.py alone, on short files of the wider set of lines
InitTinker == Init /\ prog = "tinker"

NextTinker ==
    \/ TinkerArgs
    \/ TinkerLineWide
    \/ TinkerEof

SpecTinker == InitTinker /\ [][NextTinker]_vars

\* main.frcmod.py alone, extract followed through its loops
InitExtract ==
    /\ prog = "frcmod"
    /\ argc \in 0..MaxArgs
    /\ IF argc = 1
       THEN file \in SeqsUpTo(ExtractLines, MaxExtractLines)
       ELSE file = <<>>
    /\ lines = <<>>
    /\ eof = FALSE
    /\ out = <<>>
    /\ pc = "args"
    /\ exitStatus = -1
    /\ opened = FALSE
    /\ err = NoErr
    /\ sect = <<>>
    /\ kidx = 0
    /\ multipoles_list = <<>>
    /\ ffrcmod = 0
    /\ x_llist = <<>>
    /\ x_empty_lines = 0

NextExtract ==
    \/ FrcmodArgs
    \/ ExtractCall
    \/ ExtractFor
    \/ ExtractWhile
    \/ ExtractReturn
    \/ FrcmodPrint

SpecExtract == InitExtract /\ [][NextExtract]_vars

\* the statements of extract
ExtractSteps == ExtractCall \/ ExtractFor \/ ExtractWhile \/ ExtractReturn

\* the interpreter runs the next statement of extract as long as there is one
FairSpecExtract == SpecExtract /\ WF_vars(ExtractSteps)

(***************************************************************************)
(* Properties                                                              *)
(***************************************************************************)
Tokens(line) == split(strip(line))

\* the items printed for source line i
ItemsOf(i) == SelectSeq(out, LAMBDA it : it.src = i)

IsRecord(it, tag) == it.kind = "record" /\ it.rec.tag = tag

\* the items printed by the step
NewOut == SubSeq(out', Len(out) + 1, Len(out'))

\* the step reads a line of a LAMMPS or Tinker file and dispatches it
Dispatches == prog \in {"lammps", "tinker"} /\ Len(lines') > Len(lines)

Dispatched == lines'[Len(lines) + 1]

LammpsKeywords == {kw_bond_coeff, kw_angle_coeff, kw_dihedral_coeff, kw_pair_coeff}

\* a line that matches no record-kind header of its dialect
Unrecognized(line) ==
    IF prog = "lammps"
    THEN Tokens(line) = <<>> \/ At(Tokens(line), 0) \notin LammpsKeywords
    ELSE t2omm_branch(Tokens(line)) \in {"pass", "skip"}

\* line i of an FRCMOD file is text outside the five extracted sections
OutsideSections(i) ==
    /\ strip(file[i]) # <<>>
    /\ \A k \in 1..5 : ~startswith(file[i], Components[k])
    /\ \A k \in 1..5 : \A n \in 1..Len(sect[k]) : sect[k][n].src # i

\* C1 (as stated): in each of the three drivers every input line that matches
\* no recognized header is printed, trimmed but otherwise unmodified, and
\* never dropped; this includes Tinker lines of fewer than 3 tokens or
\* starting with '#' and FRCMOD lines outside the five extracted sections.
C1_PassthroughNeverDropped ==
    [][/\ (Dispatches /\ Unrecognized(Dispatched)) =>
            \E j \in 1..Len(NewOut) :
                /\ NewOut[j].kind = "grey"
                /\ NewOut[j].text = strip(Dispatched)
       /\ (prog = "frcmod" /\ pc' = "done") =>
            \A i \in 1..Len(file) :
                OutsideSections(i) =>
                    \E j \in 1..Len(out') :
                        out'[j].src = i /\ out'[j].text = strip(file[i])]_vars

\* C2 (as stated): a line whose header is recognized but whose shape is
\* malformed or unsupported never ends the run: no conversion failure raises
\* past the driver loop, only the exhaustion of the input inside a multipole
\* aggregate may.
C2_NoConversionFailureEndsRun ==
    pc = "crashed" => (prog = "tinker" /\ err.exhausted)

\* C9 (as stated): each entry point run with zero or with more than one
\* positional argument prints the usage message, opens no file, converts
\* nothing and ends with a non-zero exit status.
C9_UsageExitNonZero ==
    (argc # 1 /\ pc # "args") =>
        /\ pc = "exit"
        /\ Len(out) = 2
        /\ \A j \in 1..Len(out) : out[j].kind = "msg"
        /\ ~opened
        /\ exitStatus > 0

(* ---- C3: LAMMPS pair_coeff ------------------------------------------- *)
IsPairLine(l) == Len(l) >= 4 /\ At(l, 0) = kw_pair_coeff

LjMixed(l) == IsPairLine(l) /\ startswith(At(l, 3), lj) /\ At(l, 1) # At(l, 2)

BuckSame(l) == IsPairLine(l) /\ startswith(At(l, 3), buck) /\ At(l, 1) = At(l, 2)

\* the numeric fields parse and the atom-name comment stands at index c
WellFormedPair(l, c) ==
    /\ HasIdx(l, 5) /\ IsFloat(At(l, 4)) /\ IsFloat(At(l, 5))
    /\ SecondNameErr(l, c) = ""

NoAtomRecord(i) == \A j \in 1..Len(out) : out[j].src = i => ~IsRecord(out[j], "Atom")

PassthroughAndAnnotation(i) ==
    /\ Len(ItemsOf(i)) = 2
    /\ ItemsOf(i)[1].kind = "grey" /\ ItemsOf(i)[1].text = strip(lines[i])
    /\ ItemsOf(i)[2].kind = "diag"
    /\ HasAttr(ItemsOf(i)[2].rec, "omm_sigma") /\ HasAttr(ItemsOf(i)[2].rec, "omm_epsilon")
    /\ lmm_nonbonding(strip(lines[i])).ret = NoRec

ZeroPlaceholder(i) ==
    \E j \in 1..Len(out) :
        /\ out[j].src = i /\ IsRecord(out[j], "Atom")
        /\ Attr(out[j].rec, "sigma") = VStr(zero_text)
        /\ Attr(out[j].rec, "epsilon") = VStr(zero_text)

MultipoleStep ==
    /\ prog = "tinker" /\ Len(lines') > Len(lines)
    /\ t2omm_branch(Tokens(Dispatched)) = "multipole"

\* the step prints one <Multipole> record, with or without ky
EmitsMultipole(with_ky) ==
    /\ Len(NewOut) = 1
    /\ IsRecord(NewOut[1], "Multipole")
    /\ HasAttr(NewOut[1].rec, "kz") /\ HasAttr(NewOut[1].rec, "kx")
    /\ HasAttr(NewOut[1].rec, "ky") = with_ky

EmitsNoMultipole == \A j \in 1..Len(NewOut) : ~IsRecord(NewOut[j], "Multipole")

\* the ten moments, from index c on, parse as numbers
NumericMoments(l, c) == \A i \in c..(c + 9) : HasIdx(l, i) /\ IsFloat(At(l, i))

TokensOfRead(a, b) == Concat([j \in 1..(b - a + 1) |-> Tokens(lines'[a + j - 1])])

\* C10 (as stated): on a multipole line of at least 3 tokens exactly the next
\* three lines are consumed, uninspected, the four token lists are joined
\* into the list given to the converter, and the line after those three is
\* the next one the main loop dispatches.
C10_ThreeLinesConsumed_AsStated ==
    [][/\ MultipoleStep =>
            /\ \/ Len(lines') = Len(lines) + 4
               \/ eof' /\ Len(lines') < Len(lines) + 4
            /\ multipoles_list' = TokensOfRead(Len(lines) + 1, Len(lines'))
       /\ (prog = "tinker" /\ Len(lines') > Len(lines)) =>
            \A j \in 1..Len(NewOut) : NewOut[j].src = Len(lines) + 1]_vars

\* C10 (amended): exactly the next four lines are consumed (fewer only when
\* the file ends), uninspected, the five token lists are joined into the list
\* given to the converter, and the line after those four is the next one the
\* main loop dispatches: whatever a step prints comes from the first line not
\* read before it.
C10_FourLinesConsumed ==
    [][/\ MultipoleStep =>
            /\ \/ Len(lines') = Len(lines) + 5
               \/ eof' /\ Len(lines') < Len(lines) + 5
            /\ multipoles_list' = TokensOfRead(Len(lines) + 1, Len(lines'))
       /\ (prog = "tinker" /\ Len(lines') > Len(lines)) =>
            \A j \in 1..Len(NewOut) : NewOut[j].src = Len(lines) + 1]_vars

\* a multipole line, four lines consumed with it, and the sixth line dispatched
C10_Witness ==
    /\ prog = "tinker" /\ Len(lines) = 6
    /\ t2omm_branch(Tokens(lines[1])) = "multipole"
    /\ multipoles_list = Concat([j \in 1..5 |-> Tokens(lines[j])])
    /\ \E j \in 1..Len(out) : IsRecord(out[j], "Multipole") /\ out[j].src = 1
    /\ \E j \in 1..Len(out) : IsRecord(out[j], "Bond") /\ out[j].src = 6
    /\ \A j \in 1..Len(out) : out[j].src \in {1, 6}

(* ---- C5: FRCMOD improper --------------------------------------------- *)
ImproperAtoms(i) == split(replace(Slice(strip(file[i]), 0, 11), "-", " "))

TypesOf(rec) ==
    <<Attr(rec, "type1").s, Attr(rec, "type2").s, Attr(rec, "type3").s, Attr(rec, "type4").s>>

\* C5: the <Improper> record emitted for an FRCMOD line with the identifiers
\* [a1, a2, a3, a4] in its first 11 columns has type1=a3, type2=a1, type3=a2,
\* type4=a4.
C5_ImproperOrder ==
    prog = "frcmod" =>
        \A j \in 1..Len(out) :
            (IsRecord(out[j], "Improper") /\ Len(ImproperAtoms(out[j].src)) = 4) =>
                LET a == ImproperAtoms(out[j].src)
                IN  TypesOf(out[j].rec) = <<a[3], a[1], a[2], a[4]>>

\* [c, c3, n, c3] was emitted as [n, c, c3, c3]
C5_Witness ==
    /\ prog = "frcmod"
    /\ \E j \in 1..Len(out) :
          /\ IsRecord(out[j], "Improper")
          /\ ImproperAtoms(out[j].src) = <<<<"c">>, <<"c", "3">>, <<"n">>, <<"c", "3">>>>
          /\ TypesOf(out[j].rec) = <<<<"n">>, <<"c">>, <<"c", "3">>, <<"c", "3">>>>

(* ---- C6, C7: bonds --------------------------------------------------- *)
\* the force constant and the length a bond line gives, in source units
SrcBond(i) ==
    IF prog = "frcmod"
    THEN LET params == split(SliceFrom(strip(file[i]), 5))
         IN  [k |-> float(At(params, 0)), r |-> float(At(params, 1))]
    ELSE IF prog = "lammps"
    THEN [k |-> float(At(Tokens(lines[i]), 2)), r |-> float(At(Tokens(lines[i]), 3))]
    ELSE [k |-> float(At(Tokens(lines[i]), 3)), r |-> float(At(Tokens(lines[i]), 4))]

\* factor * k * 4.184 / 0.01 and r * 0.1
TargetK(factor, k) ==
    LET d == Norm(Dec(factor * k.m * 4184, k.e + 3))
    IN  IF d.e >= 2 THEN Dec(d.m, d.e - 2) ELSE Dec(d.m * Pow10(2 - d.e), 0)

TargetLength(r) == Norm(Dec(r.m, r.e + 1))

\* C6 (as stated): the FRCMOD bond line with force constant 330.60 and
\* length 1.097 is emitted with k = 276,547.68 and length = 0.1097.
C6_BondExample_AsStated ==
    prog = "frcmod" =>
        \A j \in 1..Len(out) :
            (IsRecord(out[j], "Bond") /\ strip(file[out[j].src]) = F_bond) =>
                /\ Attr(out[j].rec, "k").d = Dec(27654768, 2)
                /\ Attr(out[j].rec, "length").d = Dec(1097, 4)

\* C6 (amended): the FRCMOD bond line with force constant 330.60 and length
\* 1.097 is emitted with k = 2 * 330.60 * 4.184 / 0.01 = 276,646.08 and
\* length = 0.1097.
C6_BondExample ==
    prog = "frcmod" =>
        \A j \in 1..Len(out) :
            (IsRecord(out[j], "Bond") /\ strip(file[out[j].src]) = F_bond) =>
                /\ Attr(out[j].rec, "k").d = Dec(27664608, 2)
                /\ Attr(out[j].rec, "length").d = Dec(1097, 4)

C6_Witness ==
    /\ prog = "frcmod"
    /\ \E j \in 1..Len(out) :
          /\ IsRecord(out[j], "Bond") /\ strip(file[out[j].src]) = F_bond
          /\ SrcBond(out[j].src) = [k |-> Dec(3306, 1), r |-> Dec(1097, 3)]
          /\ Attr(out[j].rec, "k") = VNum(Dec(27664608, 2))

\* C7 (as stated): in each of the three dialects a bond record has
\* k = 2 * source k * 4.184 / 0.01 and length = source length * 0.1
\* (to the decimals the dialect prints).
C7_BondConversion_AsStated ==
    \A j \in 1..Len(out) :
        IsRecord(out[j], "Bond") =>
            LET src == SrcBond(out[j].src)
                k == Attr(out[j].rec, "k").d
                length == Attr(out[j].rec, "length").d
            IN  IF prog = "tinker"
                THEN /\ k = FormatFixed(TargetK(2, src.k), 2)
                     /\ length = FormatFixed(TargetLength(src.r), 6)
                ELSE /\ k = TargetK(2, src.k)
                     /\ length = TargetLength(src.r)

\* C7 (amended): an FRCMOD or LAMMPS bond record has
\* k = 2 * source k * 4.184 / 0.01 and length = source length * 0.1; a Tinker
\* bond record has k = source k * 4.184 / 0.01, without the factor 2, printed
\* to 2 decimals, and length = source length * 0.1 printed to 6 decimals.
C7_BondConversion ==
    \A j \in 1..Len(out) :
        IsRecord(out[j], "Bond") =>
            LET src == SrcBond(out[j].src)
                k == Attr(out[j].rec, "k").d
                length == Attr(out[j].rec, "length").d
            IN  IF prog = "tinker"
                THEN /\ k = FormatFixed(TargetK(1, src.k), 2)
                     /\ length = FormatFixed(TargetLength(src.r), 6)
                ELSE /\ k = TargetK(2, src.k)
                     /\ length = TargetLength(src.r)

\* a Tinker bond of 341.01 kcal/mol/A^2 was emitted with k = 142678.58
C7_Witness ==
    /\ prog = "tinker"
    /\ \E j \in 1..Len(out) :
          /\ IsRecord(out[j], "Bond")
          /\ SrcBond(out[j].src) = [k |-> Dec(34101, 2), r |-> Dec(1112, 3)]
          /\ Attr(out[j].rec, "k").d = Dec(14267858, 2)
          /\ Attr(out[j].rec, "length").d = Dec(111200, 6)

(* ---- C8: output order ------------------------------------------------ *)
\* the printed items that come from a source line
FromLines == SelectSeq(out, LAMBDA it : it.src > 0)

KindIndex(tag) ==
    CASE tag = "Bond" -> 1 [] tag = "Angle" -> 2 [] tag = "Proper" -> 3
      [] tag = "Improper" -> 4 [] tag = "Atom" -> 5 [] OTHER -> 0

InFileOrder ==
    \A j, k \in 1..Len(FromLines) : j < k => FromLines[j].src <= FromLines[k].src

\* C8 (as stated): what LAMMPS and Tinker emit follows the order of the source
\* lines; what FRCMOD emits follows the line order within a kind and the kinds
\* follow the order of their header blocks in the file: the output follows
\* the file.
C8_OutputOrder_AsStated == InFileOrder

\* C8 (amended): what LAMMPS and Tinker emit follows the order of the source
\* lines; FRCMOD emits the kinds in the fixed order BOND, ANGLE, DIHE,
\* IMPROPER, NONBON, whatever the order of the header blocks in the file, and
\* the records of one kind in the order of their lines.
C8_OutputOrder ==
    IF prog = "frcmod"
    THEN \A j, k \in 1..Len(FromLines) :
            j < k =>
                \/ KindIndex(FromLines[j].rec.tag) < KindIndex(FromLines[k].rec.tag)
                \/ /\ KindIndex(FromLines[j].rec.tag) = KindIndex(FromLines[k].rec.tag)
                   /\ FromLines[j].src < FromLines[k].src
    ELSE InFileOrder

\* an IMPROPER block ahead of the BOND block, the bond record printed first
C8_Witness ==
    /\ prog = "frcmod" /\ pc = "done"
    /\ \E j, k \in 1..Len(out) :
          /\ j < k
          /\ IsRecord(out[j], "Bond") /\ IsRecord(out[k], "Improper")
          /\ out[k].src < out[j].src

(* ---- C11: a multipole header near the end of the file ----------------- *)
\* the lines the readline() calls of the step returned before the file ended
Remaining == Len(lines') - Len(lines) - 1

\* C11 (as stated): a multipole header followed by fewer than three remaining
\* lines ends the run in an unrecovered failure: no <Multipole> record is
\* printed for the header and the failure leaves the main loop.
C11_TruncatedMultipoleFails ==
    [][(MultipoleStep /\ eof' /\ Remaining < 3) =>
            (pc' = "crashed" /\ err'.exc # "" /\ EmitsNoMultipole)]_vars

(* ---- C12, C16: the FRCMOD block extractor ----------------------------- *)
IsBlank(line) == strip(line) = <<>>

\* the lines strictly between the first line that starts with K and the first
\* blank line after it (the end of the file if there is none), trimmed, each
\* with its line number
Block(f, K) ==
    LET Headers == {i \in 1..Len(f) : startswith(f[i], K)}
    IN  IF Headers = {} THEN <<>>
        ELSE LET h == CHOOSE i \in Headers : \A j \in Headers : i <= j
                 Blanks == {j \in (h + 1)..Len(f) : IsBlank(f[j])}
                 b == IF Blanks = {} THEN Len(f) + 1
                      ELSE CHOOSE j \in Blanks : \A n \in Blanks : j <= n
             IN  [n \in 1..(b - h - 1) |-> [src |-> h + n, text |-> strip(f[h + n])]]

\* C12: for every file and every kind keyword K, extract returns exactly the
\* trimmed lines strictly between the first line starting with K and the first
\* blank line after it, in file order; the lines before the header, the header
\* and every line after that blank line are left out, also those of a later
\* block that starts with K again.
C12_ExtractFirstBlock ==
    /\ \A k \in 1..Len(sect) : sect[k] = Block(file, Components[k])
    /\ \A k \in 1..5 : extract(file, Components[k]) = Block(file, Components[k])

\* two BOND blocks, the first not empty: only its lines were returned
C12_Witness ==
    /\ Len(sect) = 5
    /\ \E h1, i, b, h2, j \in 1..Len(file) :
          /\ h1 < i /\ i < b /\ b < h2 /\ h2 < j
          /\ startswith(file[h1], kw_BOND) /\ startswith(file[h2], kw_BOND)
          /\ IsBlank(file[b]) /\ ~IsBlank(file[j])
          /\ sect[1] = <<[src |-> i, text |-> strip(file[i])]>>

\* C16: extract terminates on every finite file and for every kind keyword,
\* also when the header is absent, when the header is the last line and when
\* the section runs to the end of the file with no blank line: the end of the
\* file closes the section and the lines read so far are returned.
C16_ExtractTerminates ==
    (prog = "frcmod" /\ pc = "extract")
        ~> (pc = "return" /\ x_llist = Block(file, component))

\* a section that ran to the end of the file, a header on the last line and
\* kinds with no header, all five calls returned
C16_Witness ==
    /\ pc = "print" /\ Len(sect) = 5
    /\ file = <<kw_IMPROPER, F_bond, kw_BOND>>
    /\ sect[4] = <<[src |-> 2, text |-> F_bond], [src |-> 3, text |-> kw_BOND]>>
    /\ sect[1] = <<>>
    /\ sect[2] = <<>>

(* ---- C13, C14, C15: Tinker dispatch, angle and torsion ---------------- *)
\* the step of main.tinker reads a line and dispatches it
TinkerStep == prog = "tinker" /\ Len(lines') > Len(lines)

TinkerKeywords ==
    {kw_bond, kw_angle, kw_strbnd, kw_torsion, kw_vdw, kw_opbend, kw_pitors,
     kw_multipole, kw_polarize}

\* the step printed the line as a skipped line and nothing else
Skipped ==
    /\ Len(NewOut) = 1
    /\ NewOut[1].kind = "grey"
    /\ NewOut[1].text = strip(Dispatched)

\* C13 (as stated): a line is converted as kind K only if its first token is
\* exactly the keyword of K; a line of at least 3 tokens, no comment, whose
\* first token is no keyword (it may begin with one, as in 'vdwpr') is
\* rendered as a skipped line.
C13_ExactKeywordDispatch ==
    [][TinkerStep =>
        LET l == Tokens(Dispatched)
        IN  (Len(l) >= 3 /\ ~startswith(At(l, 0), hash) /\ At(l, 0) \notin TinkerKeywords)
                => Skipped]_vars

\* the step dispatches a line to the angle branch
AngleStep == TinkerStep /\ t2omm_branch(Tokens(Dispatched)) = "angle"

AngleNames == <<"angle1", "angle2", "angle3">>

\* the step prints one <Angle> record with the first n angle attributes,
\* copied from tokens 5.. of the line
EmitsAngle(n) ==
    /\ Len(NewOut) = 1
    /\ IsRecord(NewOut[1], "Angle")
    /\ \A i \in 1..3 :
          IF i <= n
          THEN /\ HasAttr(NewOut[1].rec, AngleNames[i])
               /\ Attr(NewOut[1].rec, AngleNames[i]) = VStr(At(Tokens(Dispatched), 4 + i))
          ELSE ~HasAttr(NewOut[1].rec, AngleNames[i])

EmitsNoAngle == \A j \in 1..Len(NewOut) : ~IsRecord(NewOut[j], "Angle")

TripleNames ==
    <<<<"k1", "phase1", "periodicity1">>, <<"k2", "phase2", "periodicity2">>,
      <<"k3", "phase3", "periodicity3">>>>

\* C15 (as stated): a torsion line of 8, 11 or 14 tokens, that is with 1, 2
\* or 3 (k, phase, periodicity) triples after its four classes, is printed as
\* one <Proper> record with exactly that many attribute triples, in source
\* order.
C15_TorsionTriples ==
    [][(TinkerStep /\ t2omm_branch(Tokens(Dispatched)) = "torsion"
                   /\ Len(Tokens(Dispatched)) \in {8, 11, 14}) =>
        LET l == Tokens(Dispatched)
            n == (Len(l) - 5) \div 3
        IN  /\ Len(NewOut) = 1
            /\ IsRecord(NewOut[1], "Proper")
            /\ \A i \in 1..3 : \A c \in 1..3 :
                  HasAttr(NewOut[1].rec, TripleNames[i][c]) = (i <= n)
            /\ \A i \in 1..n :
                  Attr(NewOut[1].rec, TripleNames[i][3]) = VStr(At(l, 4 + 3 * i))]_vars

====
